---- MODULE Spec2Model ----
(***************************************************************************)
(* Notes service of notes_app_backend: a durable store (SQLAlchemy Note    *)
(* table) with a one-way fallback to a volatile in-process store           *)
(* (NotesService._mem_store).                                              *)
(*                                                                         *)
(* Spec      one caller at a time; every action is one whole call of a     *)
(*           NotesService method, the recursion after a storage error      *)
(*           included.                                                     *)
(* SpecConc  the callers of Callers run create_note line by line and       *)
(*           interleave (threaded request handlers on one NotesService).   *)
(***************************************************************************)
EXTENDS Integers, Sequences, FiniteSets, TLC

VARIABLES
    _fallback_enabled,  \* NotesService._fallback_enabled
    _mem_store,         \* NotesService._mem_store: a dict, kept in insertion order
    _mem_next_id,       \* NotesService._mem_next_id
    db_notes,           \* the rows of table "notes" as db.session shows them
    clock,              \* datetime.now(timezone.utc)
    last,               \* the call that ended last: arguments, outcome, attempts
    pc,                 \* SpecConc: the line each caller is at
    local,              \* SpecConc: each caller's arguments and locals
    returned,           \* SpecConc: the notes create_note has returned so far
    issued,             \* Spec: the ids create_note has returned from _mem_store
    meta,               \* SpecMeta: pagination_meta's arguments and its result
    _notes_service,     \* services.py's global _notes_service (0 is None)
    constructed,        \* SpecAccess: how many times NotesService() has run
    got                 \* SpecAccess: the instance get_notes_service returned to each caller

vars == <<_fallback_enabled, _mem_store, _mem_next_id, db_notes, clock, last,
          pc, local, returned, issued, meta, _notes_service, constructed, got>>

\* what the calls of Spec and the lines of SpecConc leave alone
AccessVars == <<meta, _notes_service, constructed, got>>

(***************************************************************************)
(* Bounds and input domains                                                *)
(***************************************************************************)
\* Calls per run in Spec: every call reads the clock once, and the clock
\* moves on by one from call to call.
MaxClock == 4
\* Ids used in arguments are 1..MaxId; a store holds at most MaxId notes.
MaxId == 2
\* page and page_size range over 1..MaxPage.
MaxPage == 2
\* create_note calls per run in SpecConc.
MaxConcCalls == 3

None == "<None>"
Titles == {"a", "b"}
Contents == {"", "x"}
Callers == {"t1", "t2"}
Ids == 1..MaxId

\* What the database does to one durable attempt: it works, the read
\* (SELECT) raises SQLAlchemyError, or the COMMIT raises it after the flush.
DbOutcomes == {"ok", "fail_get", "fail_commit"}

NoNote == [id |-> 0, title |-> "", content |-> "", created_at |-> 0, updated_at |-> 0]

(***************************************************************************)
(* Python helpers                                                          *)
(***************************************************************************)
\* `content or ""`
OrEmpty(content) == IF content = None \/ content = "" THEN "" ELSE content

\* dict: key in d
HasKey(d, k) == \E i \in 1..Len(d) : d[i].id = k

\* dict: d.get(k) (None is NoNote)
DictGet(d, k) == IF HasKey(d, k) THEN d[CHOOSE i \in 1..Len(d) : d[i].id = k] ELSE NoNote

\* dict: d[k] = v; a new key goes last, an existing key keeps its place
DictSet(d, k, v) ==
    IF HasKey(d, k) THEN [i \in 1..Len(d) |-> IF d[i].id = k THEN v ELSE d[i]]
    ELSE Append(d, v)

\* dict: d.pop(k, None), the dict that is left
DictPop(d, k) == SelectSeq(d, LAMBDA n : n.id # k)

\* seq[start:end] for 0 <= start <= end
Slice(s, start, end) ==
    IF start >= Len(s) THEN <<>>
    ELSE SubSeq(s, start + 1, IF end < Len(s) THEN end ELSE Len(s))

(***************************************************************************)
(* The durable store: table "notes" behind db.session                      *)
(***************************************************************************)
RowIds(db) == DOMAIN db

\* SQLite INTEGER PRIMARY KEY: the largest rowid in use plus one
NextRowId(db) == IF RowIds(db) = {} THEN 1 ELSE 1 + CHOOSE m \in RowIds(db) : \A k \in RowIds(db) : k <= m

\* db.session.get(Note, note_id)
SessionGet(db, id) == IF id \in RowIds(db) THEN db[id] ELSE NoNote

\* db.session.add(note) and its flush: the INSERT inside the transaction
SessionAdd(db, note) == [k \in RowIds(db) \cup {note.id} |-> IF k = note.id THEN note ELSE db[k]]

\* db.session.delete(note) and its flush: the DELETE inside the transaction
SessionDelete(db, id) == [k \in RowIds(db) \ {id} |-> db[k]]

\* Note(title=..., content=...): the column defaults fill both timestamps
\* (two reads of the clock within the one INSERT, taken as the same instant)
NewNote(db, title, content, t) ==
    [id |-> NextRowId(db), title |-> title, content |-> content,
     created_at |-> t, updated_at |-> t]

\* note.title = ..., note.content = ... and the flush: an UPDATE is emitted
\* only for a net change, and only an UPDATE runs updated_at's onupdate
NoteAssign(note, title, content, t) ==
    LET new_title == IF title # None THEN title ELSE note.title
        new_content == IF content # None THEN content ELSE note.content
        dirty == new_title # note.title \/ new_content # note.content
    IN [note EXCEPT !.title = new_title, !.content = new_content,
                    !.updated_at = IF dirty THEN t ELSE @]

\* as if the except branch did not roll back
SessionRollbackMissing(committed, in_txn) == in_txn

\* db.session.rollback(): the transaction's changes are dropped
SessionRollback(committed, in_txn) == committed

\* Note.query.order_by(Note.id.desc())
RECURSIVE OrderByIdDesc(_)
OrderByIdDesc(db) ==
    IF RowIds(db) = {} THEN <<>>
    ELSE LET m == CHOOSE k \in RowIds(db) : \A j \in RowIds(db) : j <= k
         IN <<db[m]>> \o OrderByIdDesc([k \in RowIds(db) \ {m} |-> db[k]])

(***************************************************************************)
(* NotesService: each method maps the service state S = [fb, mem, next,    *)
(* db] to the state after the call and the call's outcome.                 *)
(***************************************************************************)
Svc == [fb |-> _fallback_enabled, mem |-> _mem_store, next |-> _mem_next_id, db |-> db_notes]

\* What a call returns: kind is "note", "none" (None), "bool", "list" or
\* "raised" (the SQLAlchemyError left the method).
Outcome(S, kind, note, ok, items, total, db_tries, mem_tries, db_failed) ==
    [st |-> S, kind |-> kind, note |-> note, ok |-> ok, items |-> items,
     total |-> total, db_tries |-> db_tries, mem_tries |-> mem_tries,
     db_failed |-> db_failed]

\* The caller's frame of the recursive call in an except branch: one durable
\* attempt was made before it, and it failed.
AfterDbError(r) == [r EXCEPT !.db_tries = @ + 1, !.db_failed = TRUE]

\* as if the volatile store were used whatever the flag says
ShouldUseFallbackAlways(S) == TRUE

\* as if written `return self._fallback_enabled and bool(self._mem_store)`
ShouldUseFallbackIfStored(S) == S.fb /\ S.mem # <<>>

_should_use_fallback(S) == S.fb

\* as if the flag were never set
EnableFallbackNoop(S) == S

enable_fallback(S) == [S EXCEPT !.fb = TRUE]

\* as if the id were taken from the size of the store: len(self._mem_store) + 1
MemCreateIdFromLen(S, title, content, t) ==
    LET nid == Len(S.mem) + 1
        data == [id |-> nid, title |-> title, content |-> OrEmpty(content),
                 created_at |-> t, updated_at |-> t]
    IN Outcome([S EXCEPT !.next = nid + 1, !.mem = DictSet(S.mem, nid, data)],
               "note", data, FALSE, <<>>, 0, 0, 1, FALSE)

\* create_note, lines 29-39
MemCreate(S, title, content, t) ==
    LET nid == S.next
        data == [id |-> nid, title |-> title, content |-> OrEmpty(content),
                 created_at |-> t, updated_at |-> t]
    IN Outcome([S EXCEPT !.next = nid + 1, !.mem = DictSet(S.mem, nid, data)],
               "note", data, FALSE, <<>>, 0, 0, 1, FALSE)

RECURSIVE create_note(_, _, _, _, _)
create_note(S, title, content, t, dbo) ==
    IF _should_use_fallback(S) THEN MemCreate(S, title, content, t)
    ELSE LET note == NewNote(S.db, title, OrEmpty(content), t)
         IN IF dbo = "ok"
            THEN Outcome([S EXCEPT !.db = SessionAdd(S.db, note)],
                         "note", note, FALSE, <<>>, 0, 1, 0, FALSE)
            ELSE LET S1 == [S EXCEPT !.db = SessionRollback(S.db, SessionAdd(S.db, note))]
                 IN AfterDbError(create_note(enable_fallback(S1), title, content, t, "ok"))

\* get_note: the durable read is not inside a try
get_note(S, note_id, dbo) ==
    IF _should_use_fallback(S)
    THEN LET data == DictGet(S.mem, note_id)
         IN IF data = NoNote
            THEN Outcome(S, "none", NoNote, FALSE, <<>>, 0, 0, 1, FALSE)
            ELSE Outcome(S, "note", data, FALSE, <<>>, 0, 0, 1, FALSE)
    ELSE IF dbo = "fail_get"
         THEN Outcome(S, "raised", NoNote, FALSE, <<>>, 0, 1, 0, TRUE)
         ELSE LET note == SessionGet(S.db, note_id)
              IN Outcome(S, IF note = NoNote THEN "none" ELSE "note", note,
                         FALSE, <<>>, 0, 1, 0, FALSE)

\* as if title and content were assigned without the `is not None` tests
\* as if an update stamped both timestamps
MemAssignStampsBoth(data, title, content, t) ==
    [data EXCEPT !.title = IF title # None THEN title ELSE @,
                 !.content = IF content # None THEN content ELSE @,
                 !.created_at = t, !.updated_at = t]

MemAssignAll(data, title, content, t) ==
    [data EXCEPT !.title = title, !.content = content, !.updated_at = t]

\* update_note, lines 69-73: the fields set in the stored dict
MemAssign(data, title, content, t) ==
    LET d1 == IF title # None THEN [data EXCEPT !.title = title] ELSE data
        d2 == IF content # None THEN [d1 EXCEPT !.content = content] ELSE d1
    IN [d2 EXCEPT !.updated_at = t]

\* update_note, lines 65-77
MemUpdate(S, note_id, title, content, t) ==
    LET data == DictGet(S.mem, note_id)
    IN IF data = NoNote
       THEN Outcome(S, "none", NoNote, FALSE, <<>>, 0, 0, 1, FALSE)
       ELSE LET new == MemAssign(data, title, content, t)
            IN Outcome([S EXCEPT !.mem = DictSet(S.mem, note_id, new)],
                       "note", new, FALSE, <<>>, 0, 0, 1, FALSE)

RECURSIVE update_note(_, _, _, _, _, _)
update_note(S, note_id, title, content, t, dbo) ==
    IF _should_use_fallback(S) THEN MemUpdate(S, note_id, title, content, t)
    ELSE LET note == SessionGet(S.db, note_id)
             in_txn == IF note = NoNote THEN S.db
                       ELSE [S.db EXCEPT ![note_id] = NoteAssign(note, title, content, t)]
             raises == dbo = "fail_get" \/ (dbo = "fail_commit" /\ note # NoNote)
         IN IF raises
            THEN LET S1 == [S EXCEPT !.db = SessionRollback(S.db,
                                               IF dbo = "fail_get" THEN S.db ELSE in_txn)]
                 IN AfterDbError(update_note(enable_fallback(S1), note_id, title, content, t, "ok"))
            ELSE IF note = NoNote
                 THEN Outcome(S, "none", NoNote, FALSE, <<>>, 0, 1, 0, FALSE)
                 ELSE Outcome([S EXCEPT !.db = in_txn], "note", in_txn[note_id],
                              FALSE, <<>>, 0, 1, 0, FALSE)

\* as if written `self._mem_store.pop(note_id, None); return True`
MemDeleteAlwaysTrue(S, note_id) ==
    Outcome([S EXCEPT !.mem = DictPop(S.mem, note_id)], "bool", NoNote,
            TRUE, <<>>, 0, 0, 1, FALSE)

\* delete_note, line 96
MemDelete(S, note_id) ==
    Outcome([S EXCEPT !.mem = DictPop(S.mem, note_id)], "bool", NoNote,
            DictGet(S.mem, note_id) # NoNote, <<>>, 0, 0, 1, FALSE)

RECURSIVE delete_note(_, _, _)
delete_note(S, note_id, dbo) ==
    IF _should_use_fallback(S) THEN MemDelete(S, note_id)
    ELSE LET note == SessionGet(S.db, note_id)
             in_txn == IF note = NoNote THEN S.db ELSE SessionDelete(S.db, note_id)
             raises == dbo = "fail_get" \/ (dbo = "fail_commit" /\ note # NoNote)
         IN IF raises
            THEN LET S1 == [S EXCEPT !.db = SessionRollback(S.db,
                                               IF dbo = "fail_get" THEN S.db ELSE in_txn)]
                 IN AfterDbError(delete_note(enable_fallback(S1), note_id, "ok"))
            ELSE IF note = NoNote
                 THEN Outcome(S, "bool", NoNote, FALSE, <<>>, 0, 1, 0, FALSE)
                 ELSE Outcome([S EXCEPT !.db = in_txn], "bool", NoNote, TRUE,
                              <<>>, 0, 1, 0, FALSE)

\* as if the total were the length of the page
MemListTotalOfPage(S, page, page_size) ==
    LET items_all == S.mem
        start == (page - 1) * page_size
        items == Slice(items_all, start, start + page_size)
    IN Outcome(S, "list", NoNote, FALSE, items, Len(items), 0, 1, FALSE)

\* list_notes, lines 113-121: dict.values() in insertion order, then the slice
MemList(S, page, page_size) ==
    LET items_all == S.mem
        start == (page - 1) * page_size
    IN Outcome(S, "list", NoNote, FALSE, Slice(items_all, start, start + page_size),
               Len(items_all), 0, 1, FALSE)

\* list_notes: the durable query is not inside a try
list_notes(S, page, page_size, dbo) ==
    IF _should_use_fallback(S) THEN MemList(S, page, page_size)
    ELSE IF dbo = "fail_get"
         THEN Outcome(S, "raised", NoNote, FALSE, <<>>, 0, 1, 0, TRUE)
         ELSE LET query == OrderByIdDesc(S.db)
                  offset == (page - 1) * page_size
              IN Outcome(S, "list", NoNote, FALSE,
                         Slice(query, offset, offset + page_size), Len(query),
                         1, 0, FALSE)

(***************************************************************************)
(* Spec: one call at a time                                                *)
(***************************************************************************)
NoCall == [op |-> "none", id |-> 0, title |-> None, content |-> None, page |-> 0,
           page_size |-> 0, dbo |-> "ok", kind |-> "none", note |-> NoNote,
           ok |-> FALSE, items |-> <<>>, total |-> 0, db_tries |-> 0,
           mem_tries |-> 0, db_failed |-> FALSE, at |-> 0]

NoMeta == [total |-> 0, page |-> 0, page_size |-> 0, done |-> FALSE, total_pages |-> 0,
           first_page |-> 0, last_page |-> 0, previous_page |-> 0, next_page |-> 0]

NoLocals == [title |-> None, content |-> None, nid |-> 0, retried |-> FALSE]

Init ==
    /\ _fallback_enabled = FALSE
    /\ _mem_store = <<>>
    /\ _mem_next_id = 1
    /\ db_notes = <<>>
    /\ clock = 0
    /\ last = NoCall
    /\ pc = [c \in Callers |-> "idle"]
    /\ local = [c \in Callers |-> NoLocals]
    /\ returned = {}
    /\ issued = {}
    /\ meta = NoMeta
    /\ _notes_service = 0
    /\ constructed = 0
    /\ got = [c \in Callers |-> 0]

\* The call ends: the service takes the state r.st, the clock has moved on
Return(r, call) ==
    /\ _fallback_enabled' = r.st.fb
    /\ _mem_store' = r.st.mem
    /\ _mem_next_id' = r.st.next
    /\ db_notes' = r.st.db
    /\ clock' = clock + 1
    /\ last' = [call EXCEPT !.kind = r.kind, !.note = r.note, !.ok = r.ok,
                            !.items = r.items, !.total = r.total,
                            !.db_tries = r.db_tries, !.mem_tries = r.mem_tries,
                            !.db_failed = r.db_failed, !.at = clock]
    /\ issued' = IF call.op \in {"create", "post"} /\ r.mem_tries > 0 THEN issued \cup {r.note.id}
                 ELSE issued
    /\ UNCHANGED <<pc, local, returned, AccessVars>>

CanCall == clock < MaxClock

CreateNote(title, content, dbo) ==
    /\ CanCall
    /\ IF _fallback_enabled THEN _mem_next_id <= MaxId
       ELSE dbo = "ok" => Cardinality(RowIds(db_notes)) < MaxId
    /\ Return(create_note(Svc, title, content, clock, dbo),
              [NoCall EXCEPT !.op = "create", !.title = title, !.content = content, !.dbo = dbo])

GetNote(note_id, dbo) ==
    /\ CanCall
    /\ Return(get_note(Svc, note_id, dbo),
              [NoCall EXCEPT !.op = "get", !.id = note_id, !.dbo = dbo])

UpdateNote(note_id, title, content, dbo) ==
    /\ CanCall
    /\ Return(update_note(Svc, note_id, title, content, clock, dbo),
              [NoCall EXCEPT !.op = "update", !.id = note_id, !.title = title,
                             !.content = content, !.dbo = dbo])

DeleteNote(note_id, dbo) ==
    /\ CanCall
    /\ Return(delete_note(Svc, note_id, dbo),
              [NoCall EXCEPT !.op = "delete", !.id = note_id, !.dbo = dbo])

ListNotes(page, page_size, dbo) ==
    /\ CanCall
    /\ Return(list_notes(Svc, page, page_size, dbo),
              [NoCall EXCEPT !.op = "list", !.page = page, !.page_size = page_size,
                             !.dbo = dbo])

Next ==
    \/ \E title \in Titles, content \in Contents \cup {None}, dbo \in {"ok", "fail_commit"} :
          CreateNote(title, content, dbo)
    \/ \E note_id \in Ids, dbo \in {"ok", "fail_get"} : GetNote(note_id, dbo)
    \/ \E note_id \in Ids, title \in Titles \cup {None}, content \in Contents \cup {None},
          dbo \in DbOutcomes : UpdateNote(note_id, title, content, dbo)
    \/ \E note_id \in Ids, dbo \in DbOutcomes : DeleteNote(note_id, dbo)
    \/ \E page \in 1..MaxPage, page_size \in 1..MaxPage, dbo \in {"ok", "fail_get"} :
          ListNotes(page, page_size, dbo)

Spec == Init /\ [][Next]_vars
(***************************************************************************)
(* SpecConc: create_note line by line, one request thread per caller, all  *)
(* on the same NotesService. A thread may be pre-empted between any two    *)
(* lines; each thread has its own db.session, and a COMMIT is atomic.      *)
(* pc names the line of services.py the caller executes next.              *)
(***************************************************************************)
SvcVars == <<_fallback_enabled, _mem_store, _mem_next_id, db_notes>>

Goto(c, line) == pc' = [pc EXCEPT ![c] = line]

\* the caller enters create_note(title, content)
ConcCall(c, title, content) ==
    /\ pc[c] = "idle"
    /\ clock < MaxConcCalls
    /\ clock' = clock + 1
    /\ local' = [local EXCEPT ![c] = [NoLocals EXCEPT !.title = title, !.content = content]]
    /\ Goto(c, "L28")
    /\ UNCHANGED <<SvcVars, last, returned, issued, AccessVars>>

\* line 28: if self._should_use_fallback()
ConcCheck(c) ==
    /\ pc[c] = "L28"
    /\ Goto(c, IF _fallback_enabled THEN "L29" ELSE "L41")
    /\ UNCHANGED <<SvcVars, clock, last, local, returned, issued, AccessVars>>

\* line 29: nid = self._mem_next_id
ConcReadId(c) ==
    /\ pc[c] = "L29"
    /\ local' = [local EXCEPT ![c].nid = _mem_next_id]
    /\ Goto(c, "L30")
    /\ UNCHANGED <<SvcVars, clock, last, returned, issued, AccessVars>>

\* line 30: self._mem_next_id += 1
ConcIncrId(c) ==
    /\ pc[c] = "L30"
    /\ _mem_next_id' = _mem_next_id + 1
    /\ Goto(c, "L32")
    /\ UNCHANGED <<_fallback_enabled, _mem_store, db_notes, clock, last, local, returned, issued, AccessVars>>

\* lines 32-39: data = {...}; self._mem_store[nid] = data; return _Obj(data)
ConcStore(c) ==
    /\ pc[c] = "L32"
    /\ LET data == [id |-> local[c].nid, title |-> local[c].title,
                    content |-> OrEmpty(local[c].content),
                    created_at |-> clock, updated_at |-> clock]
       IN /\ _mem_store' = DictSet(_mem_store, local[c].nid, data)
          /\ returned' = returned \cup {[caller |-> c, store |-> "mem",
                                         retried |-> local[c].retried, note |-> data]}
    /\ Goto(c, "idle")
    /\ local' = [local EXCEPT ![c] = NoLocals]
    /\ UNCHANGED <<_fallback_enabled, _mem_next_id, db_notes, clock, last, issued, AccessVars>>

\* lines 41-44: the durable attempt; the COMMIT works or raises SQLAlchemyError
ConcCommit(c, dbo) ==
    /\ pc[c] = "L41"
    /\ IF dbo = "ok"
       THEN LET note == NewNote(db_notes, local[c].title, OrEmpty(local[c].content), clock)
            IN /\ db_notes' = SessionAdd(db_notes, note)
               /\ returned' = returned \cup {[caller |-> c, store |-> "db",
                                              retried |-> local[c].retried, note |-> note]}
               /\ Goto(c, "idle")
               /\ local' = [local EXCEPT ![c] = NoLocals]
       ELSE /\ Goto(c, "L46")
            /\ UNCHANGED <<db_notes, returned, local>>
    /\ UNCHANGED <<_fallback_enabled, _mem_store, _mem_next_id, clock, last, issued, AccessVars>>

\* lines 46-50: rollback, enable_fallback, and the call of create_note again
ConcExcept(c) ==
    /\ pc[c] = "L46"
    /\ _fallback_enabled' = enable_fallback(Svc).fb
    /\ local' = [local EXCEPT ![c].retried = TRUE]
    /\ Goto(c, "L28")
    /\ UNCHANGED <<_mem_store, _mem_next_id, db_notes, clock, last, returned, issued, AccessVars>>

NextConc ==
    \/ \E c \in Callers, title \in Titles, content \in {None, "x"} : ConcCall(c, title, content)
    \/ \E c \in Callers : ConcCheck(c)
    \/ \E c \in Callers : ConcReadId(c)
    \/ \E c \in Callers : ConcIncrId(c)
    \/ \E c \in Callers : ConcStore(c)
    \/ \E c \in Callers, dbo \in {"ok", "fail_commit"} : ConcCommit(c, dbo)
    \/ \E c \in Callers : ConcExcept(c)

SpecConc == Init /\ [][NextConc]_vars
(***************************************************************************)
(* SpecRoutes: POST /notes and PUT /notes/<id>, one request at a time: the *)
(* schema of @blp.arguments, the handler's own checks, then the service.   *)
(* A JSON string is one of RawStrings, null is None, an absent key Missing.*)
(***************************************************************************)
Missing == "<missing>"
MaxRequests == 3
RequestAllowed == clock < MaxRequests
RawStrings == {"", " ", "a", " a", "b "}

\* the characters of a string
Chars(str) ==
    CASE str = "" -> <<>>
      [] str = " " -> <<" ">>
      [] str = "a" -> <<"a">>
      [] str = "b" -> <<"b">>
      [] str = " a" -> <<" ", "a">>
      [] str = "b " -> <<"b", " ">>

\* the string of a sequence of characters
StrOf(chars) == CHOOSE str \in RawStrings \cup Titles : Chars(str) = chars

RECURSIVE LStrip(_)
LStrip(chars) ==
    IF chars # <<>> /\ Head(chars) = " " THEN LStrip(Tail(chars)) ELSE chars

RECURSIVE RStrip(_)
RStrip(chars) ==
    IF chars # <<>> /\ chars[Len(chars)] = " "
    THEN RStrip(SubSeq(chars, 1, Len(chars) - 1)) ELSE chars

\* str.strip()
strip(str) == StrOf(RStrip(LStrip(Chars(str))))

\* dict.get(key): None for an absent key
BodyGet(value) == IF value = Missing THEN None ELSE value

\* NoteCreateSchema: title required, a string (not null), Length(min=1)
NoteCreateSchema(title, content) ==
    /\ title # Missing
    /\ title # None
    /\ Len(Chars(title)) >= 1

\* NoteUpdateSchema: title optional; a string (not null), Length(min=1) if given
NoteUpdateSchema(title, content) ==
    title # Missing => (title # None /\ Len(Chars(title)) >= 1)

\* as if post only tested `title is None`
PostAbortsIfNone(title) == title = None

\* NotesList.post, lines 67-69: abort(400)
PostAborts(title) == title = None \/ strip(title) = ""

\* NoteDetail.put, lines 97-102: abort(400)
PutAborts(title, content) ==
    \/ title = Missing /\ content = Missing
    \/ title # Missing /\ BodyGet(title) # None /\ strip(title) = ""

\* the request is answered 400 or 422 before the service is reached
Reject(call) ==
    /\ clock' = clock + 1
    /\ last' = [call EXCEPT !.kind = "rejected", !.at = clock]
    /\ UNCHANGED <<SvcVars, pc, local, returned, issued, AccessVars>>

Post(title, content, dbo) ==
    LET call == [NoCall EXCEPT !.op = "post", !.title = title, !.content = content,
                               !.dbo = dbo]
    IN /\ RequestAllowed
       /\ IF _fallback_enabled THEN _mem_next_id <= MaxId
          ELSE dbo = "ok" => Cardinality(RowIds(db_notes)) < MaxId
       /\ IF ~NoteCreateSchema(title, content) \/ PostAborts(BodyGet(title))
          THEN Reject(call)
          ELSE Return(create_note(Svc, strip(BodyGet(title)), BodyGet(content), clock, dbo),
                      call)

Put(note_id, title, content, dbo) ==
    LET call == [NoCall EXCEPT !.op = "put", !.id = note_id, !.title = title,
                               !.content = content, !.dbo = dbo]
    IN /\ RequestAllowed
       /\ IF ~NoteUpdateSchema(title, content) \/ PutAborts(title, content)
          THEN Reject(call)
          ELSE Return(update_note(Svc, note_id,
                                  IF BodyGet(title) # None THEN strip(BodyGet(title))
                                  ELSE BodyGet(title),
                                  BodyGet(content), clock, dbo),
                      call)

NextRoutes ==
    \/ \E title \in RawStrings \cup {None, Missing}, content \in {Missing, None, "x"},
          dbo \in {"ok", "fail_commit"} : Post(title, content, dbo)
    \/ \E note_id \in Ids, title \in RawStrings \cup {None, Missing},
          content \in {Missing, None, "x"}, dbo \in DbOutcomes :
          Put(note_id, title, content, dbo)

SpecRoutes == Init /\ [][NextRoutes]_vars
(***************************************************************************)
(* SpecMeta: pagination_meta applied once to arguments drawn from bounded  *)
(* sets.  page and page_size have passed PaginationQuerySchema (both >= 1);*)
(* total is a count of notes.                                              *)
(***************************************************************************)
MaxTotal == 6
MaxMetaPage == 4
MaxPageSize == 4

\* None in previous_page / next_page
NullPage == -1

\* ceil(total / page_size) for total >= 0 and page_size >= 1
Ceil(total, page_size) ==
    IF total % page_size = 0 THEN total \div page_size
    ELSE (total \div page_size) + 1

Max(a, b) == IF a >= b THEN a ELSE b

\* as if total_pages were not floored at 1
PaginationMetaNoFloor(total, page, page_size) ==
    LET total_pages == IF page_size # 0 THEN Ceil(total, page_size) ELSE 1
        prev_page == IF page > 1 THEN page - 1 ELSE NullPage
        next_page == IF page < total_pages THEN page + 1 ELSE NullPage
    IN [total |-> total, total_pages |-> total_pages, first_page |-> 1,
        last_page |-> total_pages, page |-> page, previous_page |-> prev_page,
        next_page |-> next_page]

pagination_meta(total, page, page_size) ==
    LET total_pages == IF page_size # 0 THEN Max(Ceil(total, page_size), 1) ELSE 1
        prev_page == IF page > 1 THEN page - 1 ELSE NullPage
        next_page == IF page < total_pages THEN page + 1 ELSE NullPage
    IN [total |-> total, total_pages |-> total_pages, first_page |-> 1,
        last_page |-> total_pages, page |-> page, previous_page |-> prev_page,
        next_page |-> next_page]

InitMeta ==
    /\ _fallback_enabled = FALSE
    /\ _mem_store = <<>>
    /\ _mem_next_id = 1
    /\ db_notes = <<>>
    /\ clock = 0
    /\ last = NoCall
    /\ pc = [c \in Callers |-> "idle"]
    /\ local = [c \in Callers |-> NoLocals]
    /\ returned = {}
    /\ issued = {}
    /\ \E total \in 0..MaxTotal, page \in 1..MaxMetaPage, page_size \in 1..MaxPageSize :
          meta = [NoMeta EXCEPT !.total = total, !.page = page,
                                !.page_size = page_size]
    /\ _notes_service = 0
    /\ constructed = 0
    /\ got = [c \in Callers |-> 0]

PaginationMeta ==
    /\ ~meta.done
    /\ LET m == pagination_meta(meta.total, meta.page, meta.page_size)
       IN meta' = [total |-> m.total, page |-> m.page, page_size |-> meta.page_size,
                   done |-> TRUE, total_pages |-> m.total_pages,
                   first_page |-> m.first_page, last_page |-> m.last_page,
                   previous_page |-> m.previous_page, next_page |-> m.next_page]
    /\ UNCHANGED <<SvcVars, clock, last, pc, local, returned, issued,
                   _notes_service, constructed, got>>

NextMeta == PaginationMeta

SpecMeta == InitMeta /\ [][NextMeta]_vars

(***************************************************************************)
(* SpecAccess: get_notes_service run by the request threads, one line at a *)
(* time.  _notes_service = 0 is None; an instance is named by the order of *)
(* its construction (1, 2, ...); got[c] is what caller c was last handed.  *)
(***************************************************************************)
MaxAccesses == 4

\* the caller enters get_notes_service()
AccessCall(c) ==
    /\ pc[c] = "idle"
    /\ clock < MaxAccesses
    /\ clock' = clock + 1
    /\ local' = [local EXCEPT ![c] = NoLocals]
    /\ Goto(c, "L134")
    /\ UNCHANGED <<SvcVars, last, returned, issued, AccessVars>>

\* line 134: if _notes_service is None
AccessCheck(c) ==
    /\ pc[c] = "L134"
    /\ Goto(c, IF _notes_service = 0 THEN "L135" ELSE "L136")
    /\ UNCHANGED <<SvcVars, clock, last, local, returned, issued, AccessVars>>

\* line 135, right-hand side: NotesService() runs __init__ on a new instance
AccessConstruct(c) ==
    /\ pc[c] = "L135"
    /\ constructed' = constructed + 1
    /\ local' = [local EXCEPT ![c].nid = constructed + 1]
    /\ _fallback_enabled' = FALSE
    /\ _mem_store' = <<>>
    /\ _mem_next_id' = 1
    /\ Goto(c, "L135_store")
    /\ UNCHANGED <<db_notes, clock, last, returned, issued, meta, _notes_service, got>>

\* line 135, the assignment to the global
AccessAssign(c) ==
    /\ pc[c] = "L135_store"
    /\ _notes_service' = local[c].nid
    /\ Goto(c, "L136")
    /\ UNCHANGED <<SvcVars, clock, last, local, returned, issued, meta, constructed, got>>

\* line 136: return _notes_service
AccessReturn(c) ==
    /\ pc[c] = "L136"
    /\ got' = [got EXCEPT ![c] = _notes_service]
    /\ Goto(c, "idle")
    /\ UNCHANGED <<SvcVars, clock, last, local, returned, issued, meta,
                   _notes_service, constructed>>

NextAccess ==
    \E c \in Callers :
        \/ AccessCall(c)
        \/ AccessCheck(c)
        \/ AccessConstruct(c)
        \/ AccessAssign(c)
        \/ AccessReturn(c)

SpecAccess == Init /\ [][NextAccess]_vars

(***************************************************************************)
(* Claims. In Spec every step is one whole call and last' describes it:    *)
(* the unprimed variables are the state before the call, the primed ones   *)
(* the state after it.                                                     *)
(***************************************************************************)
Mutating == {"create", "update", "delete"}

\* the notes of a store, highest id first
RECURSIVE DescById(_)
DescById(notes) ==
    IF notes = {} THEN <<>>
    ELSE LET top == CHOOSE n \in notes : \A m \in notes : m.id <= n.id
         IN <<top>> \o DescById(notes \ {top})

MemNotes == {_mem_store[i] : i \in 1..Len(_mem_store)}
DbNotes == {db_notes[k] : k \in DOMAIN db_notes}
ActiveNotes == IF _fallback_enabled THEN MemNotes ELSE DbNotes
StoredIds == {n.id : n \in MemNotes \cup DbNotes}

\* C1: no call of a NotesService method lets a storage error out: a call
\* during which the durable backend failed still ends with a normal result.
C1_NoStorageErrorSurfaces ==
    last.db_failed => last.kind \in {"note", "none", "bool", "list"}

\* C2: once the durable backend has raised during a call of any kind, the
\* next call (and so every later one) is served by the volatile store and
\* makes no durable attempt.
C2_AfterErrorVolatileOnly ==
    [][last.db_failed => (last'.db_tries = 0 /\ last'.mem_tries = 1)]_vars

\* C3: once _fallback_enabled is true it stays true, and no later call reads
\* or writes the durable store: its rows stay as they are.
C3_FallbackOneWay ==
    [][_fallback_enabled =>
          /\ _fallback_enabled'
          /\ db_notes' = db_notes
          /\ last'.db_tries = 0]_vars

C3_Witness ==
    /\ _fallback_enabled
    /\ db_notes # <<>>
    /\ last.op = "delete" /\ last.ok /\ ~last.db_failed
    /\ _mem_store # <<>>

\* C4: create_note, update_note and delete_note make at most one durable
\* and at most one volatile attempt and end with a result; when the durable
\* attempt raised, fallback is enabled and the result and the volatile store
\* are those of the same operation applied once, with the same arguments, to
\* the volatile store (for create_note: one new note with the title and the
\* content supplied).
C4_RetryOnceOnVolatile ==
    [][last'.op \in Mutating =>
          /\ last'.db_tries <= 1 /\ last'.mem_tries <= 1
          /\ last'.kind # "raised"
          /\ last'.db_failed =>
                /\ ~_fallback_enabled /\ _fallback_enabled'
                /\ last'.db_tries = 1 /\ last'.mem_tries = 1
                /\ last'.op = "create" =>
                      /\ last'.kind = "note"
                      /\ last'.note.title = last'.title
                      /\ last'.note.content = OrEmpty(last'.content)
                      /\ last'.note.id \notin {n.id : n \in MemNotes}
                      /\ _mem_store' = Append(_mem_store, last'.note)
                /\ last'.op = "update" =>
                      /\ last'.kind = (IF HasKey(_mem_store, last'.id) THEN "note" ELSE "none")
                      /\ Len(_mem_store') = Len(_mem_store)
                /\ last'.op = "delete" =>
                      /\ last'.kind = "bool"
                      /\ last'.ok = HasKey(_mem_store, last'.id)
                      /\ ~HasKey(_mem_store', last'.id)]_vars

C4_Witness ==
    /\ last.op = "create" /\ last.db_failed /\ last.kind = "note"
    /\ last.db_tries = 1 /\ last.mem_tries = 1
    /\ _mem_store = <<last.note>>
    /\ db_notes # <<>>

\* C5: a create_note, update_note or delete_note whose durable attempt
\* raised leaves the durable store as it was: the same rows, every field.
C5_FailedDurableWriteInvisible ==
    [][(last'.op \in Mutating /\ last'.db_failed) => db_notes' = db_notes]_vars

C5_Witness ==
    /\ last.op = "update" /\ last.dbo = "fail_commit" /\ last.db_failed
    /\ last.id \in DOMAIN db_notes
    /\ last.title # None /\ db_notes[last.id].title # last.title

\* C6: when several callers hit a durable failure at the same time, no note
\* written by a caller's retry is lost: every note a retried create_note
\* returned is in _mem_store under its id.
C6_RetriedNotesKept ==
    \A r \in returned :
        (r.store = "mem" /\ r.retried) => DictGet(_mem_store, r.note.id) = r.note

\* C7: list_notes returns the notes of the active store ordered by descending
\* id, sliced at offset (page-1)*page_size for page_size items.
C7_ListDescendingPage ==
    (last.op = "list" /\ last.kind = "list") =>
        last.items = Slice(DescById(ActiveNotes), (last.page - 1) * last.page_size,
                           (last.page - 1) * last.page_size + last.page_size)

\* C8: get_note(id) right after delete_note(id) returns None, and
\* delete_note returns True only if it removed a note with that id from the
\* active store.
C8_DeleteThenGetNone ==
    [][/\ (last.op = "delete" /\ last'.op = "get" /\ last'.id = last.id)
             => last'.kind = "none"
       /\ (last'.op = "delete" /\ last'.ok)
             => \E n \in ActiveNotes : n.id = last'.id /\ n \notin ActiveNotes']_vars

\* The same with the storage error of get_note set aside.
C8_UnlessGetRaises ==
    [][/\ (last.op = "delete" /\ last'.op = "get" /\ last'.id = last.id)
             => last'.kind \in {"none", "raised"}
       /\ (last'.op = "delete" /\ last'.ok)
             => \E n \in ActiveNotes : n.id = last'.id /\ n \notin ActiveNotes']_vars

\* C9: update_note(id, None, None) on an existing note keeps title and
\* content and sets updated_at to the time of the call, on either backend.
C9_EmptyUpdateRefreshes ==
    [][(last'.op = "update" /\ last'.title = None /\ last'.content = None
           /\ last'.kind = "note") =>
          \E old \in ActiveNotes :
             /\ old.id = last'.id
             /\ last'.note.title = old.title
             /\ last'.note.content = old.content
             /\ last'.note.updated_at = clock]_vars

\* The notes New of a store after update_note against its notes Old before:
\* the same ids; in the store the call was served by, the note addressed has
\* its id and created_at and, for a field passed as None, that field as
\* before, and carries each field that was supplied; every other note is as
\* it was.
UpdateFrame(Old, New, served) ==
    /\ {n.id : n \in New} = {n.id : n \in Old}
    /\ \A old \in Old : \E new \in New :
          /\ new.id = old.id
          /\ IF served /\ old.id = last'.id
             THEN /\ new.created_at = old.created_at
                  /\ new.title = (IF last'.title = None THEN old.title ELSE last'.title)
                  /\ new.content = (IF last'.content = None THEN old.content ELSE last'.content)
             ELSE new = old

\* C10: update_note changes only the fields supplied: a field passed as None
\* keeps its value, id and created_at stay, and every other stored note, in
\* either store, is unchanged.
C10_UpdateOnlySupplied ==
    [][last'.op = "update" =>
          /\ UpdateFrame(MemNotes, MemNotes', _fallback_enabled')
          /\ UpdateFrame(DbNotes, DbNotes', ~_fallback_enabled')
          /\ Len(_mem_store') = Len(_mem_store)]_vars

C10_Witness ==
    /\ last.op = "update" /\ last.kind = "note"
    /\ last.title = None /\ last.content = "x"
    /\ last.note.title = "b" /\ last.note.created_at < last.note.updated_at
    /\ _fallback_enabled /\ Len(_mem_store) = 2
\* C11: every id create_note returns from the volatile store is at least 1
\* and greater than every id that store returned before (so none is used
\* again, also after a delete), and no two entries of _mem_store carry the
\* same id.
C11_VolatileIdsFresh ==
    [][/\ (last'.op = "create" /\ last'.mem_tries > 0) =>
             /\ last'.note.id >= 1
             /\ \A i \in issued : i < last'.note.id
             /\ DictGet(_mem_store', last'.note.id) = last'.note
       /\ \A i, j \in 1..Len(_mem_store') :
             _mem_store'[i].id = _mem_store'[j].id => i = j]_vars

C11_Witness ==
    /\ last.op = "create" /\ last.mem_tries > 0 /\ ~last.db_failed
    /\ last.note.id = 2 /\ issued = {1, 2}
    /\ Len(_mem_store) = 1
\* C12: get_note, update_note and delete_note on an id the active backend
\* does not hold, the backend answering, return None, None and False: the
\* call does not raise, does not enable fallback and changes no stored note.
C12_NotFoundIsNormal ==
    [][(/\ last'.op \in {"get", "update", "delete"}
        /\ ~last'.db_failed
        /\ \A n \in ActiveNotes : n.id # last'.id) =>
          /\ last'.kind = (IF last'.op = "delete" THEN "bool" ELSE "none")
          /\ ~last'.ok
          /\ last'.note = NoNote
          /\ _fallback_enabled' = _fallback_enabled
          /\ _mem_store' = _mem_store
          /\ db_notes' = db_notes]_vars

C12_Witness ==
    /\ last.op = "update" /\ last.kind = "none" /\ ~last.db_failed
    /\ last.dbo = "fail_commit"
    /\ ~_fallback_enabled /\ db_notes # <<>> /\ last.id \notin DOMAIN db_notes
\* a title with no character other than whitespace
Blank(title) == \A i \in 1..Len(Chars(title)) : Chars(title)[i] = " "

\* C13: after any sequence of POST and PUT requests no stored note has an
\* empty or whitespace-only title, and a request whose title is missing or
\* null (POST), empty or whitespace-only (POST and PUT) is rejected and
\* changes no stored note.
C13_TitlesNeverBlank ==
    [][/\ \A n \in MemNotes' \cup DbNotes' : ~Blank(n.title)
       /\ (/\ last'.op \in {"post", "put"}
           /\ IF last'.title \in {Missing, None} THEN last'.op = "post"
              ELSE Blank(last'.title)) =>
             /\ last'.kind = "rejected"
             /\ _mem_store' = _mem_store
             /\ db_notes' = db_notes
             /\ _fallback_enabled' = _fallback_enabled]_vars

C13_Witness ==
    /\ last.op = "put" /\ last.title = " " /\ last.kind = "rejected"
    /\ _fallback_enabled
    /\ \E n \in MemNotes : n.id = last.id /\ n.title = "b"
\* C14: every stored note, volatile or durable, has updated_at >= created_at,
\* and a note that is stored before and after a call keeps its created_at.
C14_CreatedAtFixed ==
    [][/\ \A n \in MemNotes' \cup DbNotes' : n.updated_at >= n.created_at
       /\ \A n \in MemNotes : \A m \in MemNotes' :
             m.id = n.id => m.created_at = n.created_at
       /\ \A n \in DbNotes : \A m \in DbNotes' :
             m.id = n.id => m.created_at = n.created_at]_vars

C14_Witness ==
    /\ last.op = "update" /\ last.kind = "note"
    /\ last.note.updated_at > last.note.created_at
    /\ last.note \in MemNotes
    /\ \E n \in DbNotes : n.updated_at > n.created_at

\* C15: for total >= 0, page >= 1 and page_size >= 1, pagination_meta
\* returns total_pages = max(ceil(total/page_size), 1) (the least n >= 1 with
\* n * page_size >= total), first_page = 1, last_page = total_pages,
\* previous_page = page - 1 if page > 1 else null, next_page = page + 1 if
\* page < total_pages else null; an empty collection is page 1 of 1 with
\* both neighbours null.
C15_PaginationMeta ==
    (meta.done /\ meta.total >= 0 /\ meta.page >= 1 /\ meta.page_size >= 1) =>
        /\ meta.total_pages >= 1
        /\ meta.total_pages * meta.page_size >= meta.total
        /\ meta.total_pages > 1 => (meta.total_pages - 1) * meta.page_size < meta.total
        /\ meta.first_page = 1
        /\ meta.last_page = meta.total_pages
        /\ meta.previous_page = (IF meta.page > 1 THEN meta.page - 1 ELSE NullPage)
        /\ meta.next_page = (IF meta.page < meta.total_pages THEN meta.page + 1
                             ELSE NullPage)
        /\ (meta.total = 0 /\ meta.page = 1) =>
              /\ meta.total_pages = 1
              /\ meta.previous_page = NullPage
              /\ meta.next_page = NullPage

C15_Witness ==
    /\ meta.done /\ meta.total = 5 /\ meta.page_size = 2 /\ meta.page = 2
    /\ meta.total_pages = 3 /\ meta.previous_page = 1 /\ meta.next_page = 3

\* C16: the total returned by list_notes is the number of notes stored in
\* the active backend whatever page and page_size are; a page past the end
\* has no items and the same total; the items are never more than page_size.
C16_ListTotal ==
    (last.op = "list" /\ last.kind = "list") =>
        /\ last.total = Cardinality(ActiveNotes)
        /\ Len(last.items) <= last.page_size
        /\ (last.page - 1) * last.page_size >= last.total => last.items = <<>>

C16_Witness ==
    /\ last.op = "list" /\ last.kind = "list"
    /\ _fallback_enabled /\ Len(_mem_store) = 2
    /\ last.page = 2 /\ last.page_size = 2
    /\ last.items = <<>> /\ last.total = 2

\* C17: get_notes_service is a process-wide singleton: NotesService is
\* constructed at most once, the instance is built with fallback disabled and
\* an empty volatile store, and every access, in any interleaving, is handed
\* that same instance.
C17_SingletonOnce ==
    /\ constructed <= 1
    /\ \A c \in Callers : got[c] # 0 => got[c] = 1
    /\ \A c, d \in Callers : (got[c] # 0 /\ got[d] # 0) => got[c] = got[d]
    /\ constructed > 0 =>
          (~_fallback_enabled /\ _mem_store = <<>> /\ _mem_next_id = 1)

\* C18: while fallback is disabled the volatile store is empty and the next
\* volatile id is 1; so at the step that enables fallback the volatile store
\* holds nothing but the note that step creates, and an update_note or
\* delete_note call that itself meets the database failure answers not-found
\* (None / False), even for an id the durable store holds.
C18_VolatileUntouchedUntilFallback ==
    [][/\ ~_fallback_enabled' => (_mem_store' = <<>> /\ _mem_next_id' = 1)
       /\ (~_fallback_enabled /\ _fallback_enabled') =>
             _mem_store' = (IF last'.op = "create" THEN <<last'.note>> ELSE <<>>)
       /\ (last'.op \in {"update", "delete"} /\ last'.db_failed) =>
             /\ last'.kind = (IF last'.op = "delete" THEN "bool" ELSE "none")
             /\ ~last'.ok
             /\ last'.note = NoNote]_vars

C18_Witness ==
    /\ last.op = "update" /\ last.db_failed /\ last.kind = "none"
    /\ \E n \in DbNotes : n.id = last.id
    /\ _fallback_enabled /\ _mem_store = <<>>

\* C19: two create_note calls that interleave on the volatile backend never
\* get the same id and neither note replaces the other: the notes they
\* returned carry distinct ids and each is in _mem_store under its id.
C19_InterleavedCreatesDistinct ==
    \A r1, r2 \in returned :
        (r1.store = "mem" /\ r2.store = "mem" /\ r1 # r2) =>
            /\ r1.note.id # r2.note.id
            /\ DictGet(_mem_store, r1.note.id) = r1.note
            /\ DictGet(_mem_store, r2.note.id) = r2.note

====
